---- MODULE Spec2Model ----
(***************************************************************************)
(* Model of image_generation: the prompt validator (utils.validate_prompt),*)
(* the error classification (ImageGenerator._handle_api_error), the retry  *)
(* loop (ImageGenerator.generate_image) and the save pipeline              *)
(* (utils.save_image_from_url).                                            *)
(*                                                                         *)
(* Python values are records [type, str, num]; a string is a sequence of   *)
(* one-character strings.  An error text is a sequence of tokens, each     *)
(* token standing for a run of characters; str.lower() acts token by token *)
(* and the `in` test is a search for a contiguous run of tokens.  Delays   *)
(* are integer ticks of the float base_delay (the code only multiplies by  *)
(* powers of two, which is exact on floats).                               *)
(***************************************************************************)
EXTENDS Integers, Sequences, FiniteSets, TLC

\* ------------------------------------------------------------------ bounds
MaxPad == 2          \* longest run of whitespace put around a prompt
MaxTextLen == 2      \* longest error text, in tokens
MaxRetries == 2      \* largest max_retries the generator is built with
MaxBaseDelay == 2    \* largest base_delay, in ticks

\* ------------------------------------------------------- program constants
MaxPromptLen == 500
RequiredBytes == 10485760

\* ------------------------------------------------------------ Python values
None == [type |-> "NoneType", str |-> <<>>, num |-> 0]
PyStr(s) == [type |-> "str", str |-> s, num |-> 0]
PyInt(n) == [type |-> "int", str |-> <<>>, num |-> n]

\* bool(v): None, 0 and the empty string are falsy
Truthy(v) ==
    CASE v.type = "NoneType" -> FALSE
      [] v.type = "int" -> v.num # 0
      [] v.type = "str" -> v.str # <<>>
      [] OTHER -> TRUE

Whitespace == {" ", "\n"}

\* a mutant: one whitespace character at most is dropped at each end
strip_one_each(s) ==
    LET lo == IF s # <<>> /\ s[1] \in Whitespace THEN 2 ELSE 1
        hi == IF s # <<>> /\ s[Len(s)] \in Whitespace THEN Len(s) - 1 ELSE Len(s)
    IN SubSeq(s, lo, hi)

\* str.strip(): drop the leading and the trailing run of whitespace
strip(s) ==
    LET keep == {i \in 1..Len(s) : s[i] \notin Whitespace}
    IN IF keep = {} THEN <<>>
       ELSE LET lo == CHOOSE i \in keep : \A j \in keep : i <= j
                hi == CHOOSE i \in keep : \A j \in keep : j <= i
            IN SubSeq(s, lo, hi)

Raised(cls, msg) == [raised |-> TRUE, cls |-> cls, msg |-> msg, value |-> <<>>]
Returned(v) == [raised |-> FALSE, cls |-> "", msg |-> "", value |-> v]

\* a mutant: the length is measured before trimming
validate_prompt_untrimmed_len(prompt) ==
    IF ~Truthy(prompt) \/ prompt.type # "str"
    THEN Raised("ValueError", "Prompt must be a non-empty string")
    ELSE LET cleaned_prompt == strip(prompt.str)
         IN IF cleaned_prompt = <<>>
            THEN Raised("ValueError", "Prompt cannot be empty or just whitespace")
            ELSE IF Len(prompt.str) > MaxPromptLen
            THEN Raised("ValueError", "Prompt is too long (maximum 500 characters)")
            ELSE Returned(cleaned_prompt)

\* a mutant: only the type is tested before trimming
validate_prompt_type_only(prompt) ==
    IF prompt.type # "str"
    THEN Raised("ValueError", "Prompt must be a non-empty string")
    ELSE LET cleaned_prompt == strip(prompt.str)
         IN IF cleaned_prompt = <<>>
            THEN Raised("ValueError", "Prompt cannot be empty or just whitespace")
            ELSE IF Len(cleaned_prompt) > MaxPromptLen
            THEN Raised("ValueError", "Prompt is too long (maximum 500 characters)")
            ELSE Returned(cleaned_prompt)

validate_prompt(prompt) ==
    IF ~Truthy(prompt) \/ prompt.type # "str"
    THEN Raised("ValueError", "Prompt must be a non-empty string")
    ELSE LET cleaned_prompt == strip(prompt.str)
         IN IF cleaned_prompt = <<>>
            THEN Raised("ValueError", "Prompt cannot be empty or just whitespace")
            ELSE IF Len(cleaned_prompt) > MaxPromptLen
            THEN Raised("ValueError", "Prompt is too long (maximum 500 characters)")
            ELSE Returned(cleaned_prompt)

\* ------------------------------------------------- inputs of the validator
Pads == UNION {[1..n -> Whitespace] : n \in 0..MaxPad}
CoreLens == {0, 1, 3, MaxPromptLen - 1, MaxPromptLen, MaxPromptLen + 1}
\* a run of "a", and the same with whitespace inside it
Cores ==
    {[i \in 1..n |-> "a"] : n \in CoreLens}
        \cup {[i \in 1..n |-> IF i = 2 THEN " " ELSE "a"] : n \in CoreLens \ {0, 1}}
PromptStrings == {l \o c \o r : l \in Pads, c \in Cores, r \in Pads}
PromptInputs == {PyStr(s) : s \in PromptStrings} \cup {None, PyInt(0), PyInt(123)}

VARIABLES
    vin, vout, vpc,  \* validate_prompt called on its own: input, outcome, position
    vout2,           \* the outcome of validate_prompt called on its own result
    cin, cout, cpc,  \* _handle_api_error called on its own
    running,         \* of two concurrent requests, the one that has the processor
    parked           \* the generator and the locals of the request that waits

vvars == <<vin, vout, vpc, vout2>>
cvars == <<cin, cout, cpc>>
rvars == <<running, parked>>
hvars == <<vvars, cvars, rvars>>

\* --------------------------------------------------------------- exceptions
\* the base class of every exception class the program meets
Base ==
    [ModelError |-> "ReplicateError", ReplicateError |-> "Exception",
     ConnectionError |-> "RequestException", RequestException |-> "OSError",
     UnidentifiedImageError |-> "OSError", OSError |-> "Exception",
     ImageSaveError |-> "Exception", APIError |-> "Exception",
     HTTPError |-> "RequestException",
     IndexError |-> "Exception", ValueError |-> "Exception",
     Exception |-> "Exception"]

RECURSIVE isinstance(_, _)
isinstance(error, cls) ==
    IF error.cls = cls THEN TRUE
    ELSE IF error.cls = "Exception" THEN FALSE
    ELSE isinstance([error EXCEPT !.cls = Base[error.cls]], cls)

Exc(cls, text) == [cls |-> cls, text |-> text]
NoExc == Exc("", <<>>)

Tokens == {"Rate limit", "rate limit", "Unauthorized", "exceeded"}

\* str.lower(), token by token
LowerToken(t) ==
    CASE t = "Rate limit" -> "rate limit"
      [] t = "Unauthorized" -> "unauthorized"
      [] OTHER -> t

lower(text) == [i \in 1..Len(text) |-> LowerToken(text[i])]

\* needle in text
Contains(needle, text) ==
    \E i \in 0..(Len(text) - Len(needle)) :
        SubSeq(text, i + 1, i + Len(needle)) = needle

Classification(retry, message) == [retry |-> retry, message |-> message]

\* a mutant: the text is tested before the class
_handle_api_error_text_first(error) ==
    IF isinstance(error, "ReplicateError")
    THEN IF Contains(<<"rate limit">>, lower(error.text))
         THEN Classification(TRUE, <<"Rate limit exceeded">>)
         ELSE IF isinstance(error, "ModelError")
         THEN Classification(FALSE, <<"Model error: ">> \o error.text)
         ELSE IF Contains(<<"unauthorized">>, lower(error.text))
         THEN Classification(FALSE, <<"Invalid API token">>)
         ELSE Classification(TRUE, <<"API error: ">> \o error.text)
    ELSE IF isinstance(error, "RequestException")
    THEN Classification(TRUE, <<"Network error: ">> \o error.text)
    ELSE Classification(FALSE, <<"Unexpected error: ">> \o error.text)

\* a mutant: an unauthorized request is retried like any other API error
_handle_api_error_unauthorized_retried(error) ==
    IF isinstance(error, "ModelError")
    THEN Classification(FALSE, <<"Model error: ">> \o error.text)
    ELSE IF isinstance(error, "ReplicateError")
    THEN IF Contains(<<"rate limit">>, lower(error.text))
         THEN Classification(TRUE, <<"Rate limit exceeded">>)
         ELSE Classification(TRUE, <<"API error: ">> \o error.text)
    ELSE IF isinstance(error, "RequestException")
    THEN Classification(TRUE, <<"Network error: ">> \o error.text)
    ELSE Classification(FALSE, <<"Unexpected error: ">> \o error.text)

_handle_api_error(error) ==
    IF isinstance(error, "ModelError")
    THEN Classification(FALSE, <<"Model error: ">> \o error.text)
    ELSE IF isinstance(error, "ReplicateError")
    THEN IF Contains(<<"rate limit">>, lower(error.text))
         THEN Classification(TRUE, <<"Rate limit exceeded">>)
         ELSE IF Contains(<<"unauthorized">>, lower(error.text))
         THEN Classification(FALSE, <<"Invalid API token">>)
         ELSE Classification(TRUE, <<"API error: ">> \o error.text)
    ELSE IF isinstance(error, "RequestException")
    THEN Classification(TRUE, <<"Network error: ">> \o error.text)
    ELSE Classification(FALSE, <<"Unexpected error: ">> \o error.text)

\* ------------------------------------------------------------------- state
Absent == "absent"
Dest == "generated_image.png"
Backup == "generated_image.png.backup"
Paths == {Dest, Backup}

ErrorTexts == UNION {[1..n -> Tokens] : n \in 0..MaxTextLen}
\* the texts of what client.run can raise: the texts of one spelling
RemoteTexts == {t \in ErrorTexts : \A i \in 1..Len(t) : t[i] # "rate limit"}
\* what client.run can raise
RemoteErrors ==
    {Exc(c, t) : c \in {"ModelError", "ReplicateError", "ConnectionError", "Exception"},
                 t \in RemoteTexts}
\* what client.run can return: a list of URLs, possibly empty
RemoteOutputs == {<<>>, <<"url1">>, <<"url1", "url2">>}

GeneratePrompts ==
    {None, PyStr(<<>>), PyStr(<<" ", "\n">>), PyStr(<<" ", "a", "\n">>),
     PyStr(<<"a", " ", "a">>), PyStr([i \in 1..(MaxPromptLen + 1) |-> "a"])}

\* an entry of the log: a sleep with its delay, a remote call with how it
\* ended ("returned", "retryable", "fatal"), or a step of the save
\* (for a backup "copied", "failed", "skipped"); head is the first part of the
\* message the first failed remote call was classified with
Event(ev, delay, outcome) ==
    [ev |-> ev, delay |-> delay, outcome |-> outcome, head |-> ""]

NoResult == [kind |-> "pending", cls |-> "", msg |-> <<>>, filepath |-> "", prompt |-> <<>>]
Record(filepath, prompt) ==
    [kind |-> "record", cls |-> "", msg |-> <<>>, filepath |-> filepath, prompt |-> prompt]
Raise(cls, msg) ==
    [kind |-> "raise", cls |-> cls, msg |-> msg, filepath |-> "", prompt |-> <<>>]
ReturnNone == [kind |-> "none", cls |-> "", msg |-> <<>>, filepath |-> "", prompt |-> <<>>]

VARIABLES
    max_retries,     \* self.max_retries
    base_delay,      \* self.base_delay, in ticks
    prompt,          \* the argument of generate_image
    cleaned_prompt,  \* the validated prompt
    attempt,         \* the loop variable
    pc,              \* position in generate_image
    last_error,      \* the APIError built at the last caught failure
    caught,          \* the exception caught last by the handler of the loop
    result,          \* what generate_image returned or raised
    log,             \* the sleeps, the remote calls and the steps of the save so far
    ppc,             \* position in save_image_from_url
    perr,            \* the exception save_image_from_url raised
    content,         \* the bytes the download returned
    files,           \* the output directory: path -> content
    before,          \* the output directory when save_image_from_url was called
    disk_usage       \* what shutil.disk_usage gave in check_disk_space

gvars == <<max_retries, base_delay, prompt, cleaned_prompt, attempt, pc,
           last_error, caught, result, log>>
\* the generator's variables but the log
gstate == <<max_retries, base_delay, prompt, cleaned_prompt, attempt, pc,
            last_error, caught, result>>
pvars == <<ppc, perr, content, files, before, disk_usage>>
vars == <<gvars, pvars>>

\* the output directory at the start: an earlier image may be there, and an
\* earlier backup
InitFiles ==
    {f \in [Paths -> {Absent, "old image", "older image"}] :
        /\ f[Dest] \in {Absent, "old image"}
        /\ f[Backup] \in {Absent, "older image"}}

\* disk_usage was not called yet
NoUsage == [raises |-> FALSE, free |-> -1]

InitGenerate ==
    /\ max_retries \in -1..MaxRetries
    /\ base_delay \in {1, MaxBaseDelay}
    /\ prompt \in GeneratePrompts
    /\ cleaned_prompt = <<>>
    /\ attempt = 0
    /\ pc = "validate"
    /\ last_error = NoExc
    /\ caught = NoExc
    /\ result = NoResult
    /\ log = <<>>
    /\ ppc = "idle"
    /\ perr = NoExc
    /\ content = "none"
    /\ files \in InitFiles
    /\ before = files
    /\ disk_usage = NoUsage

\* ------------------------------------------------------ save_image_from_url
\* shutil.disk_usage either fails or reports the free bytes
DiskUsages ==
    {[raises |-> TRUE, free |-> 0]}
        \cup {[raises |-> FALSE, free |-> n] :
                n \in {RequiredBytes - 1, RequiredBytes, RequiredBytes + 1}}

\* a mutant: a failed reading of the free space blocks the save
check_disk_space_fail_closed(usage) ==
    IF usage.raises THEN FALSE ELSE usage.free > RequiredBytes

\* a mutant: free space equal to the floor is enough
check_disk_space_at_floor(usage) ==
    IF usage.raises THEN TRUE ELSE usage.free >= RequiredBytes

check_disk_space(usage) ==
    IF usage.raises THEN TRUE ELSE usage.free > RequiredBytes

\* requests.get or raise_for_status failing
DownloadErrors ==
    {Exc("ConnectionError", <<"connection failed">>), Exc("HTTPError", <<"404">>)}
\* the bytes of one PNG or another, of a truncated PNG, of something that is no image
Images == {"new image", "newer image"}
Contents == Images \cup {"corrupt image", "not an image"}

\* a mutant: a failed download is re-raised as the requests exception it is
save_except_reraise(e) ==
    IF isinstance(e, "RequestException")
    THEN e
    ELSE IF isinstance(e, "OSError")
    THEN Exc("ImageSaveError", <<"Failed to save image: ">> \o e.text)
    ELSE Exc("ImageSaveError", <<"Unexpected error while saving image: ">> \o e.text)

\* a mutant: OSError is tested first, and a RequestException is an OSError
save_except_oserror_first(e) ==
    IF isinstance(e, "OSError")
    THEN Exc("ImageSaveError", <<"Failed to save image: ">> \o e.text)
    ELSE IF isinstance(e, "RequestException")
    THEN Exc("ImageSaveError", <<"Failed to download image: ">> \o e.text)
    ELSE Exc("ImageSaveError", <<"Unexpected error while saving image: ">> \o e.text)

\* the except clauses that close save_image_from_url
save_except(e) ==
    IF isinstance(e, "RequestException")
    THEN Exc("ImageSaveError", <<"Failed to download image: ">> \o e.text)
    ELSE IF isinstance(e, "OSError")
    THEN Exc("ImageSaveError", <<"Failed to save image: ">> \o e.text)
    ELSE Exc("ImageSaveError", <<"Unexpected error while saving image: ">> \o e.text)

\* a mutant: the bytes are written to the destination before they are decoded
Rejected_after_write(f) == [f EXCEPT ![Dest] = content]

\* the files when downloaded bytes are rejected: nothing was written yet
Rejected(f) == f

\* a mutant: the backup is taken of the new image
copy2_new_image(f) == [f EXCEPT ![Backup] = content]

\* shutil.copy2(filepath, backup_path)
copy2(f) == [f EXCEPT ![Backup] = f[Dest]]

\* the call starts: the path is computed and the free space checked
SaveStart ==
    /\ ppc = "start"
    /\ \E u \in DiskUsages :
          /\ disk_usage' = u
          /\ IF check_disk_space(u)
             THEN ppc' = "download" /\ perr' = perr
             ELSE /\ ppc' = "raised"
                  /\ perr' = Exc("ImageSaveError",
                                 <<"Insufficient disk space for saving the image">>)
    /\ before' = files
    /\ log' = Append(log, Event("save", 0, ""))
    /\ UNCHANGED <<content, files>>
    /\ UNCHANGED gstate
    /\ UNCHANGED hvars

\* requests.get(url, timeout=30) and raise_for_status()
Download ==
    /\ ppc = "download"
    /\ \/ \E e \in DownloadErrors :
             /\ ppc' = "raised"
             /\ perr' = save_except(e)
             /\ content' = content
       \/ \E c \in Contents :
             /\ ppc' = "decode"
             /\ content' = c
             /\ perr' = perr
    /\ log' = Append(log, Event("fetch", 0, ""))
    /\ UNCHANGED <<files, before, disk_usage>>
    /\ UNCHANGED gstate
    /\ UNCHANGED hvars

\* Image.open on the downloaded bytes
Decode ==
    /\ ppc = "decode"
    /\ IF content = "not an image"
       THEN /\ ppc' = "raised"
            /\ perr' = save_except(Exc("ImageSaveError",
                                       <<"Downloaded data is not a valid image">>))
            /\ files' = Rejected(files)
       ELSE ppc' = "verify" /\ perr' = perr /\ files' = files
    /\ log' = Append(log, Event("decode", 0, ""))
    /\ UNCHANGED <<content, before, disk_usage>>
    /\ UNCHANGED gstate
    /\ UNCHANGED hvars

\* image.verify() raises on a corrupt image
validate_image(image) == image # "corrupt image"

ValidateImage ==
    /\ ppc = "verify"
    /\ IF ~validate_image(content)
       THEN /\ ppc' = "raised"
            /\ perr' = save_except(Exc("ImageSaveError", <<"Image validation failed">>))
            /\ files' = Rejected(files)
       ELSE ppc' = "backup" /\ perr' = perr /\ files' = files
    /\ log' = Append(log, Event("verify", 0, ""))
    /\ UNCHANGED <<content, before, disk_usage>>
    /\ UNCHANGED gstate
    /\ UNCHANGED hvars

\* a mutant: a failed copy to the backup ends the save with an error
CreateBackup_raises ==
    /\ ppc = "backup"
    /\ IF files[Dest] # Absent
       THEN \/ /\ files' = copy2(files)
               /\ log' = Append(log, Event("backup", 0, "copied"))
               /\ ppc' = "write"
               /\ perr' = perr
            \/ /\ \/ files' = files
                  \/ files' = [files EXCEPT ![Backup] = "truncated"]
               /\ log' = Append(log, Event("backup", 0, "failed"))
               /\ ppc' = "raised"
               /\ perr' = save_except(Exc("OSError", <<"Permission denied">>))
       ELSE /\ files' = files
            /\ log' = Append(log, Event("backup", 0, "skipped"))
            /\ ppc' = "write"
            /\ perr' = perr
    /\ UNCHANGED <<content, before, disk_usage>>
    /\ UNCHANGED gstate
    /\ UNCHANGED hvars

\* the existing destination is copied to <path>.backup; a failed copy leaves
\* the backup as it was or truncated, and is swallowed
CreateBackup ==
    /\ ppc = "backup"
    /\ IF files[Dest] # Absent
       THEN \/ /\ files' = copy2(files)
               /\ log' = Append(log, Event("backup", 0, "copied"))
            \/ /\ \/ files' = files
                  \/ files' = [files EXCEPT ![Backup] = "truncated"]
               /\ log' = Append(log, Event("backup", 0, "failed"))
       ELSE /\ files' = files
            /\ log' = Append(log, Event("backup", 0, "skipped"))
    /\ ppc' = "write"
    /\ UNCHANGED <<perr, content, before, disk_usage>>
    /\ UNCHANGED gstate
    /\ UNCHANGED hvars

\* image_copy.save(filepath): the file is replaced, or the write fails and
\* leaves the destination as it was or truncated
Write ==
    /\ ppc = "write"
    /\ \/ /\ files' = [files EXCEPT ![Dest] = content]
          /\ ppc' = "returned"
          /\ perr' = perr
          /\ log' = Append(log, Event("write", 0, ""))
       \/ /\ \/ files' = files
             \/ files' = [files EXCEPT ![Dest] = "truncated"]
          /\ ppc' = "raised"
          /\ perr' = save_except(Exc("OSError", <<"No space left on device">>))
          /\ log' = Append(log, Event("write failed", 0, ""))
    /\ UNCHANGED <<content, before, disk_usage>>
    /\ UNCHANGED gstate
    /\ UNCHANGED hvars

\* ----------------------------------------------------------- generate_image
APIError(message) == Exc("APIError", message)

\* a mutant: the delay doubles from the first retry on
Delay_doubled(a) == base_delay * (2 ^ a)

\* the delay slept before attempt number a
Delay(a) == base_delay * (2 ^ (a - 1))

\* a mutant: the last attempt is taken to be max_retries - 1
LastAttempt_short == attempt >= max_retries - 1

LastAttempt == attempt = max_retries

\* a mutant: every failure is retried while attempts remain
GiveUp_budget_only(should_retry) == LastAttempt

\* a mutant: a retryable failure is retried whatever the attempt
GiveUp_retry_only(should_retry) == ~should_retry

GiveUp(should_retry) == ~should_retry \/ LastAttempt

\* a mutant: the loop body runs once whatever max_retries is
InRange_at_least_once(a) == a = 0 \/ (0 <= a /\ a < max_retries + 1)

\* for attempt in range(self.max_retries + 1): is there an attempt number a
InRange(a) == 0 <= a /\ a < max_retries + 1

\* a mutant: the loop does not advance
NextAttempt_same == attempt

\* the value the for statement gives attempt next
NextAttempt == attempt + 1

\* a mutant: the error of the first failed attempt is kept
LastError_first(error_message) ==
    IF last_error = NoExc THEN APIError(error_message) ELSE last_error

\* last_error = APIError(error_message)
LastError(error_message) == APIError(error_message)

\* the except clause of the loop, for the exception e; past the last value
\* of the range the loop ends and the function returns None
Except(e) ==
    LET handled == _handle_api_error(e)
        should_retry == handled.retry
        error_message == handled.message
    IN /\ caught' = e
       /\ last_error' = LastError(error_message)
       /\ IF GiveUp(should_retry)
          THEN /\ result' = Raise(last_error'.cls, last_error'.text)
               /\ pc' = "done"
               /\ attempt' = attempt
          ELSE IF InRange(attempt + 1)
          THEN /\ attempt' = NextAttempt
               /\ pc' = "attempt"
               /\ result' = result
          ELSE /\ attempt' = attempt
               /\ pc' = "done"
               /\ result' = ReturnNone

\* how the failure of a remote call is logged; the log keeps, of the first
\* failure, what it was classified as
Outcome(e) == IF _handle_api_error(e).retry THEN "retryable" ELSE "fatal"
CallFailed(e) ==
    [ev |-> "call", delay |-> 0, outcome |-> Outcome(e),
     head |-> IF attempt = 0 THEN _handle_api_error(e).message[1] ELSE ""]

\* a mutant: the ValueError is caught and wrapped like any other failure
ValidationFailure_wrapped(v) == Raise("APIError", <<"Unexpected error: ", v.msg>>)

\* validate_prompt is called outside the try: its ValueError propagates
ValidationFailure(v) == Raise(v.cls, <<v.msg>>)

\* a mutant: the first retry is not delayed
SleepDue_late == attempt > 1

\* if attempt > 0
SleepDue == attempt > 0

\* cleaned_prompt = validate_prompt(prompt), then the loop is entered
Validate ==
    /\ pc = "validate"
    /\ LET v == validate_prompt(prompt)
       IN IF v.raised
          THEN /\ result' = ValidationFailure(v)
               /\ pc' = "done"
               /\ cleaned_prompt' = cleaned_prompt
          ELSE /\ cleaned_prompt' = v.value
               /\ IF InRange(0)
                  THEN pc' = "attempt" /\ result' = result
                  ELSE pc' = "done" /\ result' = ReturnNone
    /\ UNCHANGED <<max_retries, base_delay, prompt, attempt, last_error, caught, log>>
    /\ UNCHANGED pvars
    /\ UNCHANGED hvars

\* time.sleep(delay) at the start of a retry
Sleep ==
    /\ pc = "attempt"
    /\ SleepDue
    /\ log' = Append(log, Event("sleep", Delay(attempt), ""))
    /\ pc' = "call"
    /\ UNCHANGED <<max_retries, base_delay, prompt, cleaned_prompt, attempt,
                   last_error, caught, result>>
    /\ UNCHANGED pvars
    /\ UNCHANGED hvars

AtCall == pc = "call" \/ (pc = "attempt" /\ ~SleepDue)

\* client.run raises
RemoteRaises ==
    /\ AtCall
    /\ \E e \in RemoteErrors :
          /\ log' = Append(log, CallFailed(e))
          /\ Except(e)
    /\ UNCHANGED <<max_retries, base_delay, prompt, cleaned_prompt>>
    /\ UNCHANGED pvars
    /\ UNCHANGED hvars

\* client.run returns a list; output[0] is handed to save_image_from_url
RemoteReturns ==
    /\ AtCall
    /\ log' = Append(log, Event("call", 0, "returned"))
    /\ \E output \in RemoteOutputs :
          IF output = <<>>
          THEN Except(Exc("IndexError", <<"list index out of range">>))
               /\ UNCHANGED pvars
          ELSE /\ pc' = "save"
               /\ ppc' = "start"
               /\ UNCHANGED <<attempt, last_error, caught, result>>
               /\ UNCHANGED <<perr, content, files, before, disk_usage>>
    /\ UNCHANGED <<max_retries, base_delay, prompt, cleaned_prompt>>
    /\ UNCHANGED hvars

\* save_image_from_url returned the path: the record is returned
SaveReturned ==
    /\ pc = "save"
    /\ ppc = "returned"
    /\ result' = Record(Dest, cleaned_prompt)
    /\ pc' = "done"
    /\ ppc' = "idle"
    /\ UNCHANGED <<max_retries, base_delay, prompt, cleaned_prompt, attempt,
                   last_error, caught, log>>
    /\ UNCHANGED <<perr, content, files, before, disk_usage>>
    /\ UNCHANGED hvars

\* save_image_from_url raised: the except clause of the loop handles it
SaveRaised ==
    /\ pc = "save"
    /\ ppc = "raised"
    /\ Except(perr)
    /\ ppc' = "idle"
    /\ UNCHANGED <<max_retries, base_delay, prompt, cleaned_prompt, log>>
    /\ UNCHANGED <<perr, content, files, before, disk_usage>>
    /\ UNCHANGED hvars

Next ==
    \/ Validate
    \/ Sleep
    \/ RemoteRaises
    \/ RemoteReturns
    \/ SaveStart
    \/ Download
    \/ Decode
    \/ ValidateImage
    \/ CreateBackup
    \/ Write
    \/ SaveReturned
    \/ SaveRaised

\* what a request has of its own: the fields of its generator and the locals
\* of its generate_image and save_image_from_url
Private ==
    [max_retries |-> max_retries, base_delay |-> base_delay, prompt |-> prompt,
     cleaned_prompt |-> cleaned_prompt, attempt |-> attempt, pc |-> pc,
     last_error |-> last_error, caught |-> caught, result |-> result, log |-> log,
     ppc |-> ppc, perr |-> perr, content |-> content, before |-> before,
     disk_usage |-> disk_usage]

\* a request that was not started
NotStarted ==
    [max_retries |-> 0, base_delay |-> 1, prompt |-> None,
     cleaned_prompt |-> <<>>, attempt |-> 0, pc |-> "idle",
     last_error |-> NoExc, caught |-> NoExc, result |-> NoResult, log |-> <<>>,
     ppc |-> "idle", perr |-> NoExc, content |-> "none",
     before |-> [p \in Paths |-> Absent], disk_usage |-> NoUsage]

\* there is one request only
IdleConcurrent == running = 1 /\ parked = NotStarted

\* the validator's variables are idle in Spec, the generator's in SpecValidate
IdleValidate ==
    vin = None /\ vout = Returned(<<>>) /\ vout2 = Returned(<<>>) /\ vpc = "idle"
IdleClassify == cin = NoExc /\ cout = Classification(FALSE, <<>>) /\ cpc = "idle"

\* a generator is built and generate_image called once
Init == InitGenerate /\ IdleValidate /\ IdleClassify /\ IdleConcurrent

Spec == Init /\ [][Next]_<<vars, hvars>>

\* the requests whose end is followed: every max_retries, an invalid prompt
\* and a valid one, the shortest delay, an empty output directory and one
\* with an earlier image and backup
InitLive ==
    /\ Init
    /\ base_delay = 1
    /\ prompt \in {None, PyStr(<<" ", "a", "\n">>)}
    /\ files[Dest] = Absent <=> files[Backup] = Absent

\* a request when every remote call, sleep and step of the save returns: a
\* step that can be taken is taken
SpecLive == InitLive /\ [][Next]_<<vars, hvars>> /\ WF_<<vars, hvars>>(Next)

\* ------------------------------------------- validate_prompt on its own
IdleGenerate ==
    /\ max_retries = 0
    /\ base_delay = 1
    /\ prompt = None
    /\ cleaned_prompt = <<>>
    /\ attempt = 0
    /\ pc = "idle"
    /\ last_error = NoExc
    /\ caught = NoExc
    /\ result = NoResult
    /\ log = <<>>
    /\ ppc = "idle"
    /\ perr = NoExc
    /\ content = "none"
    /\ files = [p \in Paths |-> Absent]
    /\ before = files
    /\ disk_usage = NoUsage

InitValidate ==
    /\ vin \in PromptInputs
    /\ vout = Returned(<<>>)
    /\ vout2 = Returned(<<>>)
    /\ vpc = "call"
    /\ IdleGenerate
    /\ IdleClassify
    /\ IdleConcurrent

\* one call of validate_prompt on the chosen input
CallValidatePrompt ==
    /\ vpc = "call"
    /\ vout' = validate_prompt(vin)
    /\ vpc' = "done"
    /\ UNCHANGED <<vin, vout2>>
    /\ UNCHANGED <<vars, cvars, rvars>>

\* the prompt validate_prompt returned is validated again
RevalidatePrompt ==
    /\ vpc = "done"
    /\ ~vout.raised
    /\ vout2' = validate_prompt(PyStr(vout.value))
    /\ vpc' = "again"
    /\ UNCHANGED <<vin, vout>>
    /\ UNCHANGED <<vars, cvars, rvars>>

NextValidate == CallValidatePrompt \/ RevalidatePrompt

SpecValidate == InitValidate /\ [][NextValidate]_<<vars, hvars>>

\* --------------------------------------------- _handle_api_error on its own
ErrorClasses ==
    {"ModelError", "ReplicateError", "RequestException", "ConnectionError",
     "HTTPError", "OSError", "ImageSaveError", "IndexError", "ValueError",
     "Exception"}
ErrorInputs == {Exc(c, t) : c \in ErrorClasses, t \in ErrorTexts}

InitClassify ==
    /\ cin \in ErrorInputs
    /\ cout = Classification(FALSE, <<>>)
    /\ cpc = "call"
    /\ IdleGenerate
    /\ IdleValidate
    /\ IdleConcurrent

\* one call of _handle_api_error on the chosen error
CallHandleApiError ==
    /\ cpc = "call"
    /\ cout' = _handle_api_error(cin)
    /\ cpc' = "done"
    /\ UNCHANGED cin
    /\ UNCHANGED <<vars, vvars, rvars>>

NextClassify == CallHandleApiError

SpecClassify == InitClassify /\ [][NextClassify]_<<vars, hvars>>

\* ------------------------------------- save_image_from_url on its own
\* calls of save_image_from_url that resolve to the same path, one after the
\* other, on a directory that keeps what the earlier calls left
InitPersist ==
    /\ max_retries = 0
    /\ base_delay = 1
    /\ prompt = None
    /\ cleaned_prompt = <<>>
    /\ attempt = 0
    /\ pc = "idle"
    /\ last_error = NoExc
    /\ caught = NoExc
    /\ result = NoResult
    /\ log = <<>>
    /\ ppc = "idle"
    /\ perr = NoExc
    /\ content = "none"
    /\ files \in InitFiles
    /\ before = files
    /\ disk_usage = NoUsage
    /\ IdleValidate
    /\ IdleClassify
    /\ IdleConcurrent

\* save_image_from_url(url, output_dir) is called
CallSave ==
    /\ pc = "idle"
    /\ ppc \in {"idle", "returned", "raised"}
    /\ ppc' = "start"
    /\ perr' = NoExc
    /\ content' = "none"
    /\ disk_usage' = NoUsage
    /\ log' = <<>>
    /\ UNCHANGED <<files, before>>
    /\ UNCHANGED gstate
    /\ UNCHANGED hvars

NextPersist ==
    \/ CallSave
    \/ SaveStart
    \/ Download
    \/ Decode
    \/ ValidateImage
    \/ CreateBackup
    \/ Write

SpecPersist == InitPersist /\ [][NextPersist]_<<vars, hvars>>

\* --------------------------------------------- two requests at a time
\* what the remote call raises while two requests run: a failure of the
\* network, a rate limit, a failure of the model
ConcurrentErrors ==
    {Exc("ConnectionError", <<>>), Exc("ReplicateError", <<"Rate limit">>),
     Exc("ModelError", <<>>)}

\* two threads, each with a generator of its own and a prompt of its own,
\* call generate_image within the same second on one output directory
InitConcurrent ==
    /\ InitGenerate
    /\ max_retries = MaxRetries
    /\ base_delay = 1
    /\ prompt = PyStr(<<" ", "a", "\n">>)
    /\ files[Dest] = Absent <=> files[Backup] = Absent
    /\ running = 1
    /\ parked \in {[NotStarted EXCEPT !.max_retries = n,
                                      !.base_delay = MaxBaseDelay,
                                      !.prompt = PyStr(<<"a", " ", "a">>),
                                      !.pc = "validate",
                                      !.before = files] : n \in {0, 1}}
    /\ IdleValidate
    /\ IdleClassify

\* a mutant: the loop variable is one counter the two requests share
OwnAttempt_shared == attempt

\* attempt is a local of generate_image: the request that goes on has its own
OwnAttempt == parked.attempt

\* the processor goes from one thread to the other: the thread that goes on
\* finds its generator and its locals as it left them, and the output
\* directory as the other thread left it
Switch ==
    /\ parked.pc # "idle"
    /\ running' = 3 - running
    /\ parked' = Private
    /\ max_retries' = parked.max_retries
    /\ base_delay' = parked.base_delay
    /\ prompt' = parked.prompt
    /\ cleaned_prompt' = parked.cleaned_prompt
    /\ attempt' = OwnAttempt
    /\ pc' = parked.pc
    /\ last_error' = parked.last_error
    /\ caught' = parked.caught
    /\ result' = parked.result
    /\ log' = parked.log
    /\ ppc' = parked.ppc
    /\ perr' = parked.perr
    /\ content' = parked.content
    /\ before' = parked.before
    /\ disk_usage' = parked.disk_usage
    /\ UNCHANGED files
    /\ UNCHANGED <<vvars, cvars>>

\* the steps of the request that has the processor; the free space is enough
\* or not, and the download gives an image or fails
RemoteRaisesConcurrent == RemoteRaises /\ caught' \in ConcurrentErrors
SaveStartConcurrent ==
    SaveStart /\ ~disk_usage'.raises /\ disk_usage'.free # RequiredBytes
DownloadConcurrent ==
    /\ Download
    /\ content' \in Images \cup {"none"}
    /\ perr' \in {NoExc, save_except(Exc("HTTPError", <<"404">>))}

NextConcurrent ==
    \/ Switch
    \/ Validate
    \/ Sleep
    \/ RemoteRaisesConcurrent
    \/ RemoteReturns
    \/ SaveStartConcurrent
    \/ DownloadConcurrent
    \/ Decode
    \/ ValidateImage
    \/ CreateBackup
    \/ Write
    \/ SaveReturned
    \/ SaveRaised

SpecConcurrent == InitConcurrent /\ [][NextConcurrent]_<<vars, hvars>>

\* ================================================================== claims
LogIdx == 1..Len(log)
CallIdx == {i \in LogIdx : log[i].ev = "call"}
SleepIdx == {i \in LogIdx : log[i].ev = "sleep"}
SaveIdx == {i \in LogIdx : log[i].ev = "save"}
NumCalls == Cardinality(CallIdx)
NumSleeps == Cardinality(SleepIdx)
\* the remote calls made before entry i of the log
CallsBefore(i) == Cardinality({j \in CallIdx : j < i})
\* neither a remote call nor a sleep is logged after entry i
NothingAfter(i) == \A j \in LogIdx : j > i => log[j].ev \notin {"call", "sleep"}

AllSpace(s) == \A i \in 1..Len(s) : s[i] \in Whitespace
\* the text between the first and the last non-blank character is longer than n
TrimLenExceeds(s, n) ==
    \E lo \in 1..Len(s) : \E hi \in (lo + n)..Len(s) :
        s[lo] \notin Whitespace /\ s[hi] \notin Whitespace
InvalidPrompt(p) ==
    p.type # "str" \/ AllSpace(p.str) \/ TrimLenExceeds(p.str, MaxPromptLen)
\* v is s without its leading and trailing whitespace
IsTrimOf(v, s) ==
    /\ v # <<>>
    /\ v[1] \notin Whitespace
    /\ v[Len(v)] \notin Whitespace
    /\ \E i \in 0..(Len(s) - Len(v)) :
          /\ SubSeq(s, i + 1, i + Len(v)) = v
          /\ AllSpace(SubSeq(s, 1, i))
          /\ AllSpace(SubSeq(s, i + Len(v) + 1, Len(s)))

\* the error text holds the word w, whatever the case of its letters
HasWord(text, w) == \E i \in 1..Len(text) : LowerToken(text[i]) = w

\* C1: with max_retries = N >= 0 and a valid prompt, a request all of whose
\* remote calls failed with a retryable classification has made exactly N+1
\* calls and N sleeps when it ends, and it ends with a terminal APIError.
C1_RetryExhaustion ==
    (/\ pc = "done"
     /\ max_retries >= 0
     /\ ~InvalidPrompt(prompt)
     /\ \A i \in CallIdx : log[i].outcome = "retryable")
        => /\ NumCalls = max_retries + 1
           /\ NumSleeps = max_retries
           /\ result.kind = "raise"
           /\ result.cls = "APIError"

C1_Witness ==
    /\ pc = "done"
    /\ max_retries = 2
    /\ \A i \in CallIdx : log[i].outcome = "retryable"
    /\ NumCalls = 3
    /\ NumSleeps = 2
    /\ result.kind = "raise"

\* C2: a failure classified as non-retryable ends the request at once: the
\* request is over with an error, nothing is called or slept after the failed
\* call, and when it is the first call there was 1 call and 0 sleeps.
C2_FatalEndsRequest ==
    /\ (caught # NoExc /\ ~_handle_api_error(caught).retry)
          => pc = "done" /\ result.kind = "raise"
    /\ \A i \in CallIdx : log[i].outcome = "fatal"
          => /\ NothingAfter(i)
             /\ pc = "done"
             /\ result.kind = "raise"
             /\ (CallsBefore(i) = 0 => NumCalls = 1 /\ NumSleeps = 0)

C2_Witness ==
    /\ pc = "done"
    /\ max_retries = 2
    /\ NumCalls = 2
    /\ log # <<>>
    /\ log[Len(log)].ev = "call"
    /\ log[Len(log)].outcome = "fatal"

\* C3: when the first k calls failed with retryable classifications and the
\* next one succeeded and was saved, the record is returned after exactly
\* k+1 calls and k sleeps, and no call follows the first success.
C3_RetryThenSuccess ==
    /\ \A i \in CallIdx : log[i].outcome = "returned" => NothingAfter(i)
    /\ result.kind = "record"
          => LET k == Cardinality({i \in CallIdx : log[i].outcome = "retryable"})
             IN /\ k <= max_retries
                /\ NumCalls = k + 1
                /\ NumSleeps = k
                /\ \A i \in CallIdx : log[i].outcome = "returned" <=> CallsBefore(i) = k

C3_Witness ==
    /\ result.kind = "record"
    /\ NumCalls = 2
    /\ NumSleeps = 1
    /\ log[1].outcome = "retryable"

\* C4: the sleep before attempt a >= 1 lasts base_delay * 2^(a-1); the first
\* attempt has no sleep before it, every retry has exactly one, and no sleep
\* follows the last failed attempt.
C4_BackoffSchedule ==
    /\ \A i \in SleepIdx :
          /\ CallsBefore(i) >= 1
          /\ log[i].delay = base_delay * (2 ^ (CallsBefore(i) - 1))
          /\ log[i - 1].ev # "sleep"
          /\ i < Len(log) => log[i + 1].ev = "call"
    /\ \A i \in CallIdx :
          IF CallsBefore(i) = 0
          THEN \A j \in SleepIdx : j > i
          ELSE log[i - 1].ev = "sleep"
    /\ pc = "done" /\ log # <<>> => log[Len(log)].ev # "sleep"

C4_Witness ==
    /\ pc = "done"
    /\ result.kind = "raise"
    /\ base_delay = 2
    /\ NumSleeps = 2
    /\ \E i, j \in SleepIdx : i < j /\ log[i].delay = 2 /\ log[j].delay = 4

\* C5: for max_retries >= 0 a request ends with exactly one of a record and
\* a terminal error, the outcome once given never changes, and a record is
\* given only after a remote call that succeeded and a save that went through
\* the final write.
C5_RecordOrOneError ==
    /\ [](/\ pc # "done" => result.kind = "pending"
          /\ pc = "done" /\ max_retries >= 0 => result.kind \in {"record", "raise"}
          /\ result.kind = "record"
                => /\ \E i \in CallIdx : log[i].outcome = "returned" /\ CallsBefore(i) = NumCalls - 1
                   /\ log[Len(log)].ev = "write"
                   /\ \A i \in LogIdx : log[i].ev # "write failed"
                   /\ files[Dest] = content
                   /\ content \in Images
                   /\ result.filepath = Dest)
    /\ [][result.kind # "pending" => result' = result /\ log' = log /\ files' = files]_vars

C5_Witness ==
    /\ pc = "done"
    /\ result.kind = "raise"
    /\ log # <<>>
    /\ log[Len(log)].ev = "write failed"
    /\ files[Dest] = "truncated"

\* C6: a save that fails after a successful remote call is not retried, a
\* failed download included: no call and no sleep follows the save, the save
\* is started at most once in a request, and the request ends with an error.
C6_SaveFailureNotRetried ==
    /\ Cardinality(SaveIdx) <= 1
    /\ \A i \in SaveIdx : NothingAfter(i)
    /\ pc = "done" /\ SaveIdx # {} /\ result.kind # "record" => result.kind = "raise"

C6_Witness ==
    /\ pc = "done"
    /\ result.kind = "raise"
    /\ attempt < max_retries
    /\ log # <<>>
    /\ log[Len(log)].ev = "fetch"
    /\ caught.cls = "ImageSaveError"
    /\ caught.text[1] = "Failed to download image: "

\* C7: the classification follows the table: a model error is not retried
\* whatever its text; a remote-service error with "rate limit" is retried as
\* "Rate limit exceeded"; a remote-service error with neither "rate limit"
\* nor "unauthorized" is retried as "API error"; a network failure is retried
\* as "Network error"; every other failure is not retried, "Unexpected error".
C7_ClassificationTable ==
    cpc = "done" =>
        LET isModel == cin.cls = "ModelError"
            isRemote == cin.cls = "ReplicateError"
            isNetwork == cin.cls \in {"RequestException", "ConnectionError", "HTTPError"}
        IN /\ isModel => ~cout.retry /\ cout.message = <<"Model error: ">> \o cin.text
           /\ isRemote /\ HasWord(cin.text, "rate limit")
                 => cout.retry /\ cout.message = <<"Rate limit exceeded">>
           /\ isRemote /\ ~HasWord(cin.text, "rate limit") /\ ~HasWord(cin.text, "unauthorized")
                 => cout.retry /\ cout.message = <<"API error: ">> \o cin.text
           /\ isNetwork => cout.retry /\ cout.message = <<"Network error: ">> \o cin.text
           /\ ~isModel /\ ~isRemote /\ ~isNetwork
                 => ~cout.retry /\ cout.message = <<"Unexpected error: ">> \o cin.text

C7_Witness ==
    /\ cpc = "done"
    /\ cin.cls = "ModelError"
    /\ HasWord(cin.text, "rate limit")
    /\ ~cout.retry

\* C8 as stated: every remote-service (non-model) error whose text holds
\* "unauthorized" is classified do-not-retry with "Invalid API token", and the
\* request ends there.
C8_UnauthorizedNeverRetried ==
    (caught.cls = "ReplicateError" /\ HasWord(caught.text, "unauthorized"))
        => /\ last_error.text = <<"Invalid API token">>
           /\ pc = "done"
           /\ result = Raise("APIError", <<"Invalid API token">>)
           /\ log[Len(log)].ev = "call"

\* C8 amended: every remote-service (non-model) error whose text holds
\* "unauthorized" and does not hold "rate limit" is classified do-not-retry
\* with "Invalid API token", and no remote call follows it.
C8_UnauthorizedWithoutRateLimit ==
    (/\ caught.cls = "ReplicateError"
     /\ HasWord(caught.text, "unauthorized")
     /\ ~HasWord(caught.text, "rate limit"))
        => /\ last_error.text = <<"Invalid API token">>
           /\ pc = "done"
           /\ result = Raise("APIError", <<"Invalid API token">>)
           /\ log[Len(log)].ev = "call"

C8_Witness ==
    /\ caught.cls = "ReplicateError"
    /\ HasWord(caught.text, "unauthorized")
    /\ ~HasWord(caught.text, "rate limit")
    /\ attempt < max_retries
    /\ pc = "done"
    /\ NumCalls = 1

\* C9: with an invalid prompt the request fails with the validator's
\* ValueError, not wrapped in an APIError, and nothing is called, slept or
\* saved, whatever max_retries is.
C9_InvalidPromptFailsFast ==
    InvalidPrompt(prompt)
        => /\ log = <<>>
           /\ ppc = "idle"
           /\ last_error = NoExc
           /\ pc = "done" => result.kind = "raise" /\ result.cls = "ValueError"
           /\ pc \in {"validate", "done"}

C9_Witness ==
    /\ pc = "done"
    /\ InvalidPrompt(prompt)
    /\ max_retries = 2
    /\ result.cls = "ValueError"

\* C10: validate_prompt fails for every non-string, every string that is
\* blank after trimming and every string whose trimmed length exceeds 500;
\* for any other string it returns the input without its leading and
\* trailing whitespace, which is non-empty and at most 500 characters long.
C10_ValidatePromptContract ==
    vpc # "call" =>
        IF InvalidPrompt(vin)
        THEN vout.raised /\ vout.cls = "ValueError"
        ELSE /\ ~vout.raised
             /\ IsTrimOf(vout.value, vin.str)
             /\ Len(vout.value) >= 1
             /\ Len(vout.value) <= MaxPromptLen

C10_Witness ==
    /\ vpc = "done"
    /\ ~vout.raised
    /\ Len(vin.str) > MaxPromptLen
    /\ Len(vout.value) = MaxPromptLen

\* C11: validation is idempotent: validating a prompt that validate_prompt
\* returned succeeds and returns the same prompt.
C11_ValidateIdempotent ==
    vpc = "again" => ~vout2.raised /\ vout2.value = vout.value

C11_Witness ==
    /\ vpc = "again"
    /\ ~vout2.raised
    /\ Len(vin.str) = Len(vout.value) + 2 * MaxPad
    /\ vout2.value = vout.value

\* C20 as stated: "must be a non-empty string" is reported only for a
\* non-string; every string that is blank after trimming, the empty string
\* included, fails with "cannot be empty or just whitespace"; every string
\* whose trimmed length exceeds 500 fails with "too long".
C20_MessagesByInput ==
    vpc # "call" =>
        /\ vin.type # "str"
              => vout.raised /\ vout.msg = "Prompt must be a non-empty string"
        /\ vout.raised /\ vout.msg = "Prompt must be a non-empty string"
              => vin.type # "str"
        /\ vin.type = "str" /\ AllSpace(vin.str)
              => vout.raised /\ vout.msg = "Prompt cannot be empty or just whitespace"
        /\ vin.type = "str" /\ TrimLenExceeds(vin.str, MaxPromptLen)
              => vout.raised /\ vout.msg = "Prompt is too long (maximum 500 characters)"

\* C20 amended: "must be a non-empty string" is reported for a non-string and
\* for the empty string, and for nothing else; every non-empty string that is
\* blank after trimming fails with "cannot be empty or just whitespace"; every
\* string whose trimmed length exceeds 500 fails with "too long".
C20_MessagesByInputEmptyString ==
    vpc # "call" =>
        /\ vin.type # "str" \/ vin.str = <<>>
              => vout.raised /\ vout.msg = "Prompt must be a non-empty string"
        /\ vout.raised /\ vout.msg = "Prompt must be a non-empty string"
              => vin.type # "str" \/ vin.str = <<>>
        /\ vin.type = "str" /\ vin.str # <<>> /\ AllSpace(vin.str)
              => vout.raised /\ vout.msg = "Prompt cannot be empty or just whitespace"
        /\ vin.type = "str" /\ TrimLenExceeds(vin.str, MaxPromptLen)
              => vout.raised /\ vout.msg = "Prompt is too long (maximum 500 characters)"

C20_Witness ==
    /\ vpc = "done"
    /\ vin = PyStr(<<>>)
    /\ vout.raised
    /\ vout.msg = "Prompt must be a non-empty string"

\* the step of the save logged last, and how the backup went
LastEv == IF log = <<>> THEN "" ELSE log[Len(log)].ev
Logged(ev) == \E i \in LogIdx : log[i].ev = ev
BackupOutcome(o) == \E i \in LogIdx : log[i].ev = "backup" /\ log[i].outcome = o

\* C12 as stated: when the destination exists as save_image_from_url starts,
\* then once the call has returned the backup holds what the destination
\* held before the call and the destination holds the downloaded image.
C12_BackupHoldsPrior ==
    (ppc = "returned" /\ before[Dest] # Absent)
        => /\ files[Backup] # Absent
           /\ files[Backup] = before[Dest]
           /\ files[Dest] = content

\* C12 amended: when the destination exists as save_image_from_url starts
\* and the copy to the backup does not fail, then once the call has returned
\* the backup holds what the destination held before the call and the
\* destination holds the downloaded image.
C12_BackupHoldsPriorWhenCopied ==
    (ppc = "returned" /\ before[Dest] # Absent /\ ~BackupOutcome("failed"))
        => /\ files[Backup] # Absent
           /\ files[Backup] = before[Dest]
           /\ files[Dest] = content

C12_Witness ==
    /\ ppc = "returned"
    /\ before[Dest] = "new image"
    /\ before[Backup] = "old image"
    /\ content = "newer image"
    /\ files[Backup] = "new image"
    /\ files[Dest] = "newer image"

\* C13: a save that fails at the disk-space check, the download, the decode
\* or the image validation leaves the directory as it was: no destination
\* and no backup is created or changed.
C13_EarlyFailureLeavesFiles ==
    (ppc = "raised" /\ LastEv \in {"save", "fetch", "decode", "verify"})
        => files = before

C13_Witness ==
    /\ ppc = "raised"
    /\ LastEv = "decode"
    /\ content = "not an image"
    /\ files[Dest] = Absent
    /\ files[Backup] = Absent

\* C14: when the free space is read and is not above the floor, the save
\* fails with the insufficient-disk-space error and nothing is fetched.
C14_LowDiskFailsBeforeFetch ==
    (/\ ppc \notin {"idle", "start"}
     /\ ~disk_usage.raises
     /\ disk_usage.free <= RequiredBytes)
        => /\ ppc = "raised"
           /\ perr = Exc("ImageSaveError", <<"Insufficient disk space for saving the image">>)
           /\ ~Logged("fetch")

C14_Witness ==
    /\ ppc = "raised"
    /\ ~disk_usage.raises
    /\ disk_usage.free = RequiredBytes
    /\ LastEv = "save"

\* C17: a failed copy to the backup is swallowed: the save goes on to the
\* write, a save that returns has written the new image to the destination,
\* and an error of the save is never the backup's.
C17_BackupFailureSwallowed ==
    BackupOutcome("failed")
        => /\ ppc \in {"write", "returned", "raised"}
           /\ ppc = "returned" => files[Dest] = content /\ content \in Images
           /\ ppc = "raised"
                 => /\ LastEv = "write failed"
                    /\ perr = Exc("ImageSaveError",
                                  <<"Failed to save image: ", "No space left on device">>)

C17_Witness ==
    /\ BackupOutcome("failed")
    /\ ppc = "returned"
    /\ before[Dest] = "old image"
    /\ files[Backup] # "old image"
    /\ files[Dest] = content

\* C18: the disk-space check fails open: when the free space cannot be read
\* the save goes on to the download, and the check blocks the save only on
\* a free space that was read and is not above the floor.
C18_DiskCheckFailsOpen ==
    /\ (ppc \notin {"idle", "start"} /\ disk_usage.raises)
          => ppc = "download" \/ Logged("fetch")
    /\ (ppc = "raised" /\ LastEv = "save")
          => ~disk_usage.raises /\ disk_usage.free <= RequiredBytes

C18_Witness ==
    /\ disk_usage.raises
    /\ Logged("fetch")
    /\ ppc = "returned"

\* the messages of the steps of the save
StepPhrases ==
    {"Failed to download image: ", "Downloaded data is not a valid image",
     "Image validation failed", "Failed to save image: "}
PhraseOf(ev) ==
    CASE ev = "fetch" -> {"Failed to download image: "}
      [] ev = "decode" -> {"Downloaded data is not a valid image"}
      [] ev = "verify" -> {"Image validation failed"}
      [] ev = "write failed" -> {"Failed to save image: "}
      [] OTHER -> {}

\* C19: every failure of the save is an ImageSaveError whose message holds
\* the phrase of the step that failed (download, decode, validation, write)
\* and the phrase of no other step.
C19_MessageNamesStep ==
    ppc = "raised"
        => /\ perr.cls = "ImageSaveError"
           /\ LastEv \in {"save", "fetch", "decode", "verify", "write failed"}
           /\ {ph \in StepPhrases : \E i \in 1..Len(perr.text) : perr.text[i] = ph}
                 = PhraseOf(LastEv)

C19_Witness ==
    /\ ppc = "raised"
    /\ LastEv = "fetch"
    /\ perr = Exc("ImageSaveError", <<"Failed to download image: ", "404">>)

\* C15: when the retry budget is exhausted, the error raised carries the
\* message the last failed attempt was classified with, whatever the
\* earlier attempts failed with.
C15_LastMessageRaised ==
    (/\ pc = "done"
     /\ result.kind = "raise"
     /\ result.cls = "APIError"
     /\ max_retries >= 0
     /\ NumCalls = max_retries + 1
     /\ LastEv = "call"
     /\ log[Len(log)].outcome = "retryable")
        => /\ result.msg = _handle_api_error(caught).message
           /\ last_error = APIError(result.msg)

C15_Witness ==
    /\ pc = "done"
    /\ result.kind = "raise"
    /\ max_retries = 2
    /\ NumCalls = 3
    /\ LastEv = "call"
    /\ log[Len(log)].outcome = "retryable"
    /\ log[1].head = "Rate limit exceeded"
    /\ result.msg[1] = "Network error: "

\* C16 as stated: when the remote call returns a list with no URL, the
\* request fails with the error "malformed response", nothing is saved and
\* nothing more is called or slept.
C16_EmptyOutputMalformed ==
    caught.cls = "IndexError"
        => /\ pc = "done"
           /\ result = Raise("APIError", <<"malformed response">>)
           /\ SaveIdx = {}
           /\ LastEv = "call"

\* C16 amended: when the remote call returns a list with no URL, the request
\* fails with the error "Unexpected error: list index out of range", nothing
\* is saved and nothing more is called or slept.
C16_EmptyOutputUnexpected ==
    caught.cls = "IndexError"
        => /\ pc = "done"
           /\ result = Raise("APIError", <<"Unexpected error: ", "list index out of range">>)
           /\ SaveIdx = {}
           /\ LastEv = "call"

C16_Witness ==
    /\ caught.cls = "IndexError"
    /\ pc = "done"
    /\ attempt = 1
    /\ max_retries = 2
    /\ NumCalls = 2
    /\ NumSleeps = 1
    /\ LastEv = "call"
    /\ log[Len(log)].outcome = "returned"
    /\ result.kind = "raise"

\* C24: a generator built with a negative max_retries is accepted, and its
\* generate_image with a valid prompt makes no remote call, sleeps at no time,
\* saves nothing, returns no record and raises nothing: it returns None.
C24_NegativeRetriesReturnsNone ==
    (/\ max_retries < 0
     /\ ~validate_prompt(prompt).raised
     /\ pc # "validate")
        => /\ pc = "done"
           /\ result = ReturnNone
           /\ log = <<>>
           /\ ppc = "idle"
           /\ files = before

C24_Witness ==
    /\ max_retries = -1
    /\ prompt = PyStr(<<" ", "a", "\n">>)
    /\ pc = "done"
    /\ result = ReturnNone
    /\ log = <<>>

Max0(n) == IF n < 0 THEN 0 ELSE n

\* C23: when every remote call, sleep and step of the save returns, every
\* request ends, after at most max_retries + 1 remote calls and at most
\* max_retries sleeps, whatever the remote calls gave.
C23_Terminates ==
    /\ <>(pc = "done")
    /\ [](NumCalls <= Max0(max_retries + 1) /\ NumSleeps <= Max0(max_retries))

C23_Witness ==
    /\ pc = "done"
    /\ max_retries = 2
    /\ NumCalls = 3
    /\ NumSleeps = 2
    /\ result.kind = "raise"

\* both requests have returned a record
BothSaved ==
    /\ pc = "done"
    /\ result.kind = "record"
    /\ parked.pc = "done"
    /\ parked.result.kind = "record"
\* no copy to the backup failed, in either request
NoCopyFailed ==
    /\ ~BackupOutcome("failed")
    /\ \A i \in 1..Len(parked.log) :
          ~(parked.log[i].ev = "backup" /\ parked.log[i].outcome = "failed")

\* C21 as stated, even granted that no copy to the backup fails: when two
\* saves to the same path have both succeeded, with different images, the
\* destination holds the image written last and the backup the image written
\* first, however their steps interleaved.
C21_FirstImageBackedUp ==
    (BothSaved /\ NoCopyFailed /\ content # parked.content)
        => /\ files[Dest] \in {content, parked.content}
           /\ files[Backup] \in {content, parked.content}
           /\ files[Backup] # files[Dest]

\* the outcome of the request that has the processor, from its own prompt,
\* configuration and log
OwnOutcome ==
    LET v == validate_prompt(prompt)
    IN IF v.raised THEN Raise(v.cls, <<v.msg>>)
       ELSE IF max_retries < 0 THEN ReturnNone
       ELSE IF LastEv = "write" THEN Record(Dest, v.value)
       ELSE Raise("APIError", _handle_api_error(caught).message)

\* C22: while two requests interleave, each makes the calls and sleeps and
\* ends as it does alone: its sleeps follow its own base_delay and its own
\* failed calls, a non-retryable failure or a success ends it, it makes at
\* most its own max_retries + 1 calls, and its outcome follows from its own
\* prompt, configuration and log.
C22_RequestsIndependent ==
    /\ NumCalls <= Max0(max_retries + 1)
    /\ NumSleeps = Cardinality({i \in CallIdx : i < Len(log) /\ log[i].outcome = "retryable"})
    /\ \A i \in SleepIdx :
          /\ CallsBefore(i) >= 1
          /\ log[i].delay = base_delay * (2 ^ (CallsBefore(i) - 1))
          /\ log[i - 1].ev = "call" /\ log[i - 1].outcome = "retryable"
    /\ \A i \in CallIdx : log[i].outcome \in {"fatal", "returned"} => NothingAfter(i)
    /\ (/\ pc = "done"
        /\ ~validate_prompt(prompt).raised
        /\ \A i \in CallIdx : log[i].outcome = "retryable")
          => NumCalls = Max0(max_retries + 1)
    /\ pc = "done" => result = OwnOutcome
    /\ pc # "done" => result = NoResult

C22_Witness ==
    /\ running = 1
    /\ pc = "done"
    /\ result.kind = "raise"
    /\ NumCalls = 3
    /\ NumSleeps = 2
    /\ parked.pc = "save"
    /\ parked.attempt = 1
    /\ Len(parked.log) > 3

====
